---- MODULE Spec2Model ----
(***************************************************************************)
(* CapacitorSerialProtocol (src/src/js/protocols/CapacitorSerial.js):      *)
(* the device registry (this.ports), the permission negotiation pass, and  *)
(* the connect / send / disconnect lifecycle, as a state machine.          *)
(*                                                                         *)
(* An async method is cut at its awaits: one action runs the code from the *)
(* call to the first await, and one action per await runs the code from    *)
(* the settlement of the awaited transport promise to the next await (or   *)
(* to the return / throw).  Between two such actions any other operation   *)
(* may run, as on the JavaScript event loop.  The transport (Serial) is an *)
(* external collaborator: each of its promises resolves or rejects.        *)
(***************************************************************************)
EXTENDS Integers, Sequences, FiniteSets, TLC

\* ------------------------------------------------------------------ bounds
\* connect / send / disconnect calls that may be in flight at once
MaxCalls == 2
\* getDevices calls that may be in flight at once, besides the constructor's
\* loadDevices
MaxLoads == 1
\* the registry is not grown beyond this length
MaxPorts == 2
\* bytesReceived is not grown beyond this value
MaxBytes == 2

Calls == 1..MaxCalls
\* slot 0 holds the loadDevices() call of the constructor
Loads == 0..MaxLoads

\* ------------------------------------------------------- collaborators' data
\* the (vendorId, productId) pairs a hot-plug notification may carry: one
\* that is whitelisted and one, of the same vendor, that is not
HotPlugDevices == { <<1, 1>>, <<1, 2>> }

\* ./devices serialDevices: the ordered whitelist of known devices
serialDevices ==
    << [vendorId |-> 1, productId |-> 1], [vendorId |-> 2, productId |-> 1] >>

\* ./devices vendorIdNames: vendor 1 has a name, vendor 2 has none
vendorIdNames == [v \in {1} |-> "STM"]

\* paths a consumer passes to connect (createPort's constant path)
Paths == {"serial"}

\* byteLength of a chunk the transport delivers / of the data of a send
ChunkLengths == {1, 2}
SendLengths == {2}

\* what a consumer passes as send's callback
Callbacks == {"none", "returns", "throws"}

\* the Error objects a transport promise may reject with
TransportErrors == {"EIO", "ENODEV"}

\* ------------------------------------------------------------ JS values
\* null in this.ports (createPort's result on a duplicate)
NullPort ==
    [path |-> "null", displayName |-> [vendor |-> "", vid |-> 0, pid |-> 0],
     vendorId |-> 0, productId |-> 0]

\* null / no error
Null == "null"

\* new CustomEvent(type, {detail})
Event(type, ok, p, len) == [type |-> type, ok |-> ok, port |-> p, len |-> len]

\* one call of a Serial method and how its promise settled
TransportCall(name, vid, pid) ==
    [name |-> name, vendorId |-> vid, productId |-> pid, outcome |-> "pending",
     error |-> Null]

Settle(log, outcome, error) ==
    [log EXCEPT ![Len(log)] = [@ EXCEPT !.outcome = outcome, !.error = error]]

\* what a call completed with
NoResult == [kind |-> "none", val |-> "", ports |-> <<>>, message |-> "", cause |-> Null]
Value(v) == [NoResult EXCEPT !.kind = "value", !.val = v]
PortsValue(ps) == [NoResult EXCEPT !.kind = "value", !.val = "ports", !.ports = ps]
Raised(message, cause) ==
    [NoResult EXCEPT !.kind = "raised", !.message = message, !.cause = cause]

\* ------------------------------------------------------------ the registry
Min(S) == CHOOSE i \in S : \A j \in S : i <= j

\* p.vendorId === vid && p.productId === pid, for p an object
Matches(p, vid, pid) == p.vendorId = vid /\ p.productId = pid

\* The scan of this.ports.some(...) / findIndex(...): the callback reads
\* p.vendorId, which throws a TypeError when p is null; the scan stops at the
\* first match.  index is 0 when nothing matches (findIndex's -1).
Scan(ps, vid, pid) ==
    LET stop == {i \in 1..Len(ps) : ps[i] = NullPort \/ Matches(ps[i], vid, pid)}
    IN IF stop = {} THEN [threw |-> FALSE, index |-> 0]
       ELSE IF ps[Min(stop)] = NullPort THEN [threw |-> TRUE, index |-> 0]
       ELSE [threw |-> FALSE, index |-> Min(stop)]

\* vendorIdNames[vid] ? vendorIdNames[vid] : `VID:${vid} PID:${pid}`
DisplayName(vid, pid) ==
    IF vid \in DOMAIN vendorIdNames
    THEN [vendor |-> vendorIdNames[vid], vid |-> 0, pid |-> 0]
    ELSE [vendor |-> "", vid |-> vid, pid |-> pid]

\* createPort without its duplicate check
createPortNoDedup(ps, vid, pid) ==
    [threw |-> FALSE,
     port |-> [path |-> "serial", displayName |-> DisplayName(vid, pid),
               vendorId |-> vid, productId |-> pid]]

\* createPort(vid, pid): null on a duplicate, else the descriptor
createPort(ps, vid, pid) ==
    LET s == Scan(ps, vid, pid)
    IN IF s.threw THEN [threw |-> TRUE, port |-> NullPort]
       ELSE IF s.index # 0 THEN [threw |-> FALSE, port |-> NullPort]
       ELSE [threw |-> FALSE,
             port |-> [path |-> "serial", displayName |-> DisplayName(vid, pid),
                       vendorId |-> vid, productId |-> pid]]

\* handleNewDevice(vid, pid): the registry and the notifications after it
handleNewDevice(ps, vid, pid) ==
    LET c == createPort(ps, vid, pid)
    IN IF c.threw
       THEN [threw |-> TRUE, ports |-> ps, emitted |-> <<>>, added |-> NullPort]
       ELSE [threw |-> FALSE, ports |-> Append(ps, c.port),
             emitted |-> << Event("addedDevice", TRUE, c.port, 0) >>,
             added |-> c.port]

\* ps.splice(i, 1)
Splice(ps, i) == SubSeq(ps, 1, i - 1) \o SubSeq(ps, i + 1, Len(ps))

\* handleDeviceRemoval without `if (index !== -1)`: splice(-1, 1) removes the
\* last entry
handleDeviceRemovalUnchecked(ps, vid, pid) ==
    LET s == Scan(ps, vid, pid)
        i == IF s.index # 0 THEN s.index ELSE Len(ps)
    IN IF s.threw \/ i = 0 THEN [threw |-> s.threw, ports |-> ps, emitted |-> <<>>]
       ELSE [threw |-> FALSE, ports |-> Splice(ps, i),
             emitted |-> << Event("removedDevice", TRUE, ps[i], 0) >>]

\* handleDeviceRemoval with splice(index) for splice(index, 1): every entry
\* from the match on is removed
handleDeviceRemovalToEnd(ps, vid, pid) ==
    LET s == Scan(ps, vid, pid)
    IN IF s.threw THEN [threw |-> TRUE, ports |-> ps, emitted |-> <<>>]
       ELSE IF s.index # 0
       THEN [threw |-> FALSE, ports |-> SubSeq(ps, 1, s.index - 1),
             emitted |-> << Event("removedDevice", TRUE, ps[s.index], 0) >>]
       ELSE [threw |-> FALSE, ports |-> ps, emitted |-> <<>>]

\* handleDeviceRemoval(vid, pid)
handleDeviceRemoval(ps, vid, pid) ==
    LET s == Scan(ps, vid, pid)
    IN IF s.threw THEN [threw |-> TRUE, ports |-> ps, emitted |-> <<>>]
       ELSE IF s.index # 0
       THEN [threw |-> FALSE, ports |-> Splice(ps, s.index),
             emitted |-> << Event("removedDevice", TRUE, ps[s.index], 0) >>]
       ELSE [threw |-> FALSE, ports |-> ps, emitted |-> <<>>]

\* ------------------------------------------------------------------- state
VARIABLES
    isOpen,         \* this.isOpen
    connectionId,   \* this.connectionId (Null or a path)
    port,           \* this.port
    bytesSent,      \* this.bytesSent
    bytesReceived,  \* this.bytesReceived
    ports,          \* this.ports
    receiveListener,\* handleReceiveBytes is a "receive" listener of this
    readCallback,   \* the transport holds a registered read callback
    connectionOpen, \* the transport's connection is open
    loads,          \* the loadDevices / getDevices calls in flight, by slot
    calls,          \* the connect / send / disconnect calls in flight, by slot
    ret             \* the call the last step completed (IdleCall if none)

vars == << isOpen, connectionId, port, bytesSent, bytesReceived, ports,
           receiveListener, readCallback, connectionOpen, loads, calls, ret >>

registryVars == << ports, loads >>
connectionVars == << isOpen, connectionId, port, bytesSent, bytesReceived,
                     receiveListener, readCallback, connectionOpen, calls >>

\* A call: its arguments, where it stands (pc), its locals (idx, closeError),
\* the notifications it emitted, the Serial calls it made, the callback
\* invocations it made, its result; openAtCall and portsAtCall remember
\* this.isOpen and this.ports.length at the time of the call.
IdleCall ==
    [op |-> "none", pc |-> "idle", path |-> "", vendorId |-> 0, productId |-> 0,
     len |-> 0, cb |-> "none", cbArgs |-> <<>>, idx |-> 0, closeError |-> Null,
     emitted |-> <<>>, transport |-> <<>>, result |-> NoResult,
     openAtCall |-> FALSE, portsAtCall |-> 0]

NewCall(op) == [IdleCall EXCEPT !.op = op]

Done(call, result) == [call EXCEPT !.pc = "done", !.result = result]

\* the slot a new call takes
FreeCall == Min({c \in Calls : calls[c].pc = "idle"})
HasFreeCall == \E c \in Calls : calls[c].pc = "idle"
FreeLoad == Min({l \in Loads : loads[l].pc = "idle"})
HasFreeLoad == \E l \in Loads : loads[l].pc = "idle"

\* a step of the call in slot c that leaves it in flight / that completes it
StepCall(c, call) ==
    IF call.pc = "done"
    THEN calls' = [calls EXCEPT ![c] = IdleCall] /\ ret' = call
    ELSE calls' = [calls EXCEPT ![c] = call] /\ ret' = IdleCall

StepLoad(l, call) ==
    IF call.pc = "done"
    THEN loads' = [loads EXCEPT ![l] = IdleCall] /\ ret' = call
    ELSE loads' = [loads EXCEPT ![l] = call] /\ ret' = IdleCall

\* ------------------------------------------------- requestPermissionDevice
\* The pass from the request for candidate i on: issues the request and
\* awaits it, or, past the end of the whitelist, returns false.
NextCandidate(call, i) ==
    IF i <= Len(serialDevices)
    THEN [call EXCEPT !.pc = "awaitPermission", !.idx = i,
              !.transport = Append(@, TransportCall("requestSerialPermissions",
                                serialDevices[i].vendorId, serialDevices[i].productId))]
    ELSE [call EXCEPT !.pc = "passed", !.result = Value("false")]

\* requestPermissionDevice without its `exists` test: every granted device
\* goes to handleNewDevice
requestPermissionDeviceUnchecked(call, ps, outcome) ==
    LET d == serialDevices[call.idx]
        n == handleNewDevice(ps, d.vendorId, d.productId)
    IN IF outcome # "granted" \/ n.threw
       THEN [call |-> NextCandidate(call, call.idx + 1), ports |-> ps]
       ELSE [call |-> [call EXCEPT !.pc = "passed", !.result = Value("true"),
                                   !.emitted = @ \o n.emitted],
             ports |-> n.ports]

\* requestPermissionDevice, from the settlement of the request for
\* serialDevices[call.idx] on: the call and the registry after it.  A
\* TypeError of the `exists` scan is caught like a rejected request.
requestPermissionDevice(call, ps, outcome) ==
    LET d == serialDevices[call.idx]
        s == Scan(ps, d.vendorId, d.productId)
        n == handleNewDevice(ps, d.vendorId, d.productId)
    IN IF outcome # "granted" \/ s.threw
       THEN [call |-> NextCandidate(call, call.idx + 1), ports |-> ps]
       ELSE IF s.index # 0
       THEN [call |-> [call EXCEPT !.pc = "passed", !.result = Value("true")],
             ports |-> ps]
       ELSE [call |-> [call EXCEPT !.pc = "passed", !.result = Value("true"),
                                   !.emitted = @ \o n.emitted],
             ports |-> n.ports]

\* ------------------------------------------------- loadDevices, getDevices
\* loadDevices without its cache check
loadDevicesUncached(call, ps) == NextCandidate(call, 1)

\* loadDevices(): the cached registry when it is not empty, else a pass
loadDevices(call, ps) ==
    IF Len(ps) > 0
    THEN [call EXCEPT !.pc = "passed", !.result = PortsValue(ps)]
    ELSE NextCandidate(call, 1)

\* The end of loadDevices: the constructor's call is complete; getDevices is
\* at `await this.loadDevices()`, where the record keeps the boolean a pass
\* returned (the cached registry is this.ports itself, read again at return).
AfterLoad(call) ==
    IF call.pc # "passed" THEN call
    ELSE IF call.op = "getDevices"
    THEN [call EXCEPT !.pc = "awaitLoad",
                      !.result = IF @.val = "ports" THEN NoResult ELSE @]
    ELSE [call EXCEPT !.pc = "done"]

\* constructor: the fields, and the loadDevices() call it does not await
Init ==
    /\ isOpen = FALSE
    /\ connectionId = Null
    /\ port = Null
    /\ bytesSent = 0
    /\ bytesReceived = 0
    /\ ports = <<>>
    /\ receiveListener = FALSE
    /\ readCallback = FALSE
    /\ connectionOpen = FALSE
    /\ loads = [l \in Loads |->
                  IF l = 0 THEN AfterLoad(loadDevices(NewCall("loadDevices"), <<>>))
                  ELSE IdleCall]
    /\ calls = [c \in Calls |-> IdleCall]
    /\ ret = IdleCall

\* getDevices() is called
GetDevices ==
    /\ HasFreeLoad
    /\ StepLoad(FreeLoad,
                AfterLoad(loadDevices([NewCall("getDevices") EXCEPT
                                           !.portsAtCall = Len(ports)], ports)))
    /\ UNCHANGED << ports, connectionVars >>

\* Serial.requestSerialPermissions settles: granted, not granted, or rejected
PermissionSettles(l, outcome) ==
    /\ loads[l].pc = "awaitPermission"
    /\ LET log == Settle(loads[l].transport, outcome, Null)
           r == requestPermissionDevice([loads[l] EXCEPT !.transport = log], ports, outcome)
       IN /\ Len(r.ports) <= MaxPorts
          /\ ports' = r.ports
          /\ StepLoad(l, AfterLoad(r.call))
    /\ UNCHANGED connectionVars

\* getDevices resumes after `await this.loadDevices()` and returns this.ports
GetDevicesReturns(l) ==
    /\ loads[l].pc = "awaitLoad"
    /\ StepLoad(l, Done(loads[l], PortsValue(ports)))
    /\ UNCHANGED << ports, connectionVars >>

\* ------------------------------------------------- hot-plug notifications
\* handleNewDevice(vid, pid) called by a hot-plug notification
HandleNewDevice(vid, pid) ==
    /\ Len(ports) < MaxPorts
    /\ LET r == handleNewDevice(ports, vid, pid)
           call == [NewCall("handleNewDevice") EXCEPT
                        !.vendorId = vid, !.productId = pid, !.emitted = r.emitted]
       IN /\ ports' = r.ports
          /\ ret' = IF r.threw THEN Done(call, Raised("TypeError", Null))
                    ELSE IF r.added = NullPort THEN Done(call, Value("null"))
                    ELSE Done(call, Value("descriptor"))
    /\ UNCHANGED << loads, connectionVars >>

\* handleDeviceRemoval(vid, pid) called by a hot-plug notification
HandleDeviceRemoval(vid, pid) ==
    /\ LET r == handleDeviceRemoval(ports, vid, pid)
           call == [NewCall("handleDeviceRemoval") EXCEPT
                        !.vendorId = vid, !.productId = pid, !.emitted = r.emitted]
       IN /\ ports' = r.ports
          /\ ret' = IF r.threw THEN Done(call, Raised("TypeError", Null))
                    ELSE Done(call, Value("undefined"))
    /\ UNCHANGED << loads, connectionVars >>

\* ---------------------------------------------------------- the transport
\* What a settled Serial call leaves in the transport: a resolved call takes
\* effect, a rejected one changes nothing.
TransportAfter(name, outcome, t) ==
    IF outcome # "ok" THEN t
    ELSE IF name = "openConnection" THEN [t EXCEPT !.connectionOpen = TRUE]
    ELSE IF name = "closeConnection" THEN [t EXCEPT !.connectionOpen = FALSE]
    ELSE IF name = "registerReadCallback" THEN [t EXCEPT !.readCallback = TRUE]
    ELSE IF name = "unregisterReadCallback" THEN [t EXCEPT !.readCallback = FALSE]
    ELSE t

SettleTransport(name, outcome) ==
    LET t == TransportAfter(name, outcome,
                 [connectionOpen |-> connectionOpen, readCallback |-> readCallback])
    IN /\ connectionOpen' = t.connectionOpen
       /\ readCallback' = t.readCallback

\* an awaited promise resolves, or rejects with one of the transport's errors
Settlements ==
    {[outcome |-> "ok", error |-> Null]}
        \cup {[outcome |-> "throw", error |-> e] : e \in TransportErrors}

\* ------------------------------------------------------------------ connect
\* the controller fields connect and disconnect write
Controller ==
    [isOpen |-> isOpen, connectionId |-> connectionId, port |-> port,
     receiveListener |-> receiveListener]

SetController(k) ==
    /\ isOpen' = k.isOpen
    /\ connectionId' = k.connectionId
    /\ port' = k.port
    /\ receiveListener' = k.receiveListener

\* connect with isOpen and connectionId assigned whatever openConnection did
connectOpenSettledEarly(call, k, s) ==
    LET k2 == [k EXCEPT !.isOpen = TRUE, !.connectionId = call.path]
    IN IF s.outcome = "ok"
       THEN [call |-> [call EXCEPT !.pc = "awaitRegister",
                           !.transport = Append(@, TransportCall("registerReadCallback", 0, 0))],
             k |-> [k2 EXCEPT !.receiveListener = TRUE]]
       ELSE [call |-> Done([call EXCEPT !.emitted =
                                   Append(@, Event("connect", FALSE, NullPort, 0))],
                           Value("false")),
             k |-> k2]

\* connect, from the settlement of Serial.openConnection to the await of
\* Serial.registerReadCallback, or to `return false`
connectOpenSettled(call, k, s) ==
    IF s.outcome = "ok"
    THEN [call |-> [call EXCEPT !.pc = "awaitRegister",
                        !.transport = Append(@, TransportCall("registerReadCallback", 0, 0))],
          k |-> [k EXCEPT !.isOpen = TRUE, !.connectionId = call.path,
                          !.receiveListener = TRUE]]
    ELSE [call |-> Done([call EXCEPT !.emitted =
                                Append(@, Event("connect", FALSE, NullPort, 0))],
                        Value("false")),
          k |-> k]

\* connect with a test of this.isOpen after the registration: a connection
\* closed meanwhile is reported as a failed connect
connectRegisterSettledGuarded(call, s) ==
    IF s.outcome = "ok" /\ isOpen
    THEN Done([call EXCEPT !.emitted = Append(@, Event("connect", TRUE, NullPort, 0))],
              Value("true"))
    ELSE IF s.outcome = "ok"
    THEN Done([call EXCEPT !.emitted = Append(@, Event("connect", FALSE, NullPort, 0))],
              Value("false"))
    ELSE Done(call, Raised(s.error, Null))

\* connect, from the settlement of Serial.registerReadCallback on: a
\* rejection is not caught and is the rejection of connect
connectRegisterSettled(call, s) ==
    IF s.outcome = "ok"
    THEN Done([call EXCEPT !.emitted = Append(@, Event("connect", TRUE, NullPort, 0))],
              Value("true"))
    ELSE Done(call, Raised(s.error, Null))

\* connect(path, options) is called
Connect(path) ==
    /\ HasFreeCall
    /\ StepCall(FreeCall, [NewCall("connect") EXCEPT
                               !.path = path, !.pc = "awaitOpen", !.openAtCall = isOpen,
                               !.transport = << TransportCall("openConnection", 0, 0) >>])
    /\ UNCHANGED << isOpen, connectionId, port, bytesSent, bytesReceived,
                    receiveListener, readCallback, connectionOpen, registryVars >>

ConnectOpenSettles(c, s) ==
    /\ calls[c].pc = "awaitOpen"
    /\ LET log == Settle(calls[c].transport, s.outcome, s.error)
           r == connectOpenSettled([calls[c] EXCEPT !.transport = log], Controller, s)
       IN /\ SetController(r.k)
          /\ StepCall(c, r.call)
    /\ SettleTransport("openConnection", s.outcome)
    /\ UNCHANGED << bytesSent, bytesReceived, registryVars >>

ConnectRegisterSettles(c, s) ==
    /\ calls[c].pc = "awaitRegister"
    /\ LET log == Settle(calls[c].transport, s.outcome, s.error)
       IN StepCall(c, connectRegisterSettled([calls[c] EXCEPT !.transport = log], s))
    /\ SettleTransport("registerReadCallback", s.outcome)
    /\ UNCHANGED << isOpen, connectionId, port, bytesSent, bytesReceived,
                    receiveListener, registryVars >>

\* ------------------------------------------------------- the read callback
\* The callback given to registerReadCallback is called with a message: it
\* emits "receive", and handleReceiveBytes, when it listens, adds the length.
\* handleReceiveBytes with `=` for `+=`
handleReceiveBytesAssign(received, listening, len) ==
    IF listening THEN len ELSE received

\* handleReceiveBytes(info), called once per "receive" event when it listens:
\* this.bytesReceived += info.detail.byteLength
handleReceiveBytes(received, listening, len) ==
    IF listening THEN received + len ELSE received

TransportDelivers(len) ==
    /\ readCallback
    /\ handleReceiveBytes(bytesReceived, receiveListener, len) <= MaxBytes
    /\ bytesReceived' = handleReceiveBytes(bytesReceived, receiveListener, len)
    /\ ret' = Done([NewCall("readCallback") EXCEPT !.len = len,
                        !.emitted = << Event("receive", TRUE, NullPort, len) >>],
                   Value("undefined"))
    /\ UNCHANGED << isOpen, connectionId, port, bytesSent, receiveListener,
                    readCallback, connectionOpen, calls, registryVars >>

\* the callback is called with an error and no message: it only logs
TransportReadFails ==
    /\ readCallback
    /\ ret' = Done(NewCall("readCallback"), Value("undefined"))
    /\ UNCHANGED << isOpen, connectionId, port, bytesSent, bytesReceived,
                    receiveListener, readCallback, connectionOpen, calls, registryVars >>

\* --------------------------------------------------------------------- send
\* callback?.({bytesSent: n}): the invocation is recorded; a callback that
\* throws throws at each invocation
Invoke(call, n) ==
    IF call.cb = "none" THEN call ELSE [call EXCEPT !.cbArgs = Append(@, n)]

\* send that adds the bytes written to this.bytesSent
sendWriteSettledCounting(call, sent, s) ==
    LET failed == Invoke(call, 0)
    IN IF s.outcome = "ok" /\ call.cb # "throws"
       THEN [call |-> Done(Invoke(call, call.len), Value("true")),
             bytesSent |-> sent + call.len]
       ELSE IF s.outcome = "ok"
       THEN [call |-> Done(Invoke(Invoke(call, call.len), 0), Raised("callback", Null)),
             bytesSent |-> sent + call.len]
       ELSE IF call.cb # "throws"
       THEN [call |-> Done(failed, Value("false")), bytesSent |-> sent]
       ELSE [call |-> Done(failed, Raised("callback", Null)), bytesSent |-> sent]

\* send, from the settlement of Serial.write on: the call and this.bytesSent
\* after it.  An exception of the callback in the try block is caught by the
\* catch block, which calls the callback again; an exception of the callback
\* in the catch block is the rejection of send.  The byte count goes to the
\* callback only; this.bytesSent is not written.
sendWriteSettled(call, sent, s) ==
    LET failed == Invoke(call, 0)
    IN IF s.outcome = "ok" /\ call.cb # "throws"
       THEN [call |-> Done(Invoke(call, call.len), Value("true")),
             bytesSent |-> sent]
       ELSE IF s.outcome = "ok"
       THEN [call |-> Done(Invoke(Invoke(call, call.len), 0), Raised("callback", Null)),
             bytesSent |-> sent]
       ELSE IF call.cb # "throws"
       THEN [call |-> Done(failed, Value("false")), bytesSent |-> sent]
       ELSE [call |-> Done(failed, Raised("callback", Null)), bytesSent |-> sent]

\* send(data, callback) is called
Send(len, cb) ==
    /\ HasFreeCall
    /\ StepCall(FreeCall, [NewCall("send") EXCEPT
                               !.len = len, !.cb = cb, !.pc = "awaitWrite",
                               !.transport = << TransportCall("write", 0, 0) >>])
    /\ UNCHANGED << isOpen, connectionId, port, bytesSent, bytesReceived,
                    receiveListener, readCallback, connectionOpen, registryVars >>

SendWriteSettles(c, s) ==
    /\ calls[c].pc = "awaitWrite"
    /\ LET log == Settle(calls[c].transport, s.outcome, s.error)
           r == sendWriteSettled([calls[c] EXCEPT !.transport = log], bytesSent, s)
       IN StepCall(c, r.call) /\ bytesSent' = r.bytesSent
    /\ UNCHANGED << isOpen, connectionId, port, bytesReceived,
                    receiveListener, readCallback, connectionOpen, registryVars >>

\* --------------------------------------------------------------- disconnect
\* the finally block followed by a throw that drops the cause
disconnectFinallyNoCause(call, k) ==
    LET c2 == [call EXCEPT !.emitted = Append(@, Event("disconnect", TRUE, NullPort, 0))]
    IN [call |-> IF call.closeError # Null
                 THEN Done(c2, Raised("Failed to close serial port", Null))
                 ELSE Done(c2, Value("undefined")),
        k |-> [k EXCEPT !.isOpen = FALSE, !.port = Null]]

\* The finally block and what follows it: the state is reset, "disconnect" is
\* emitted, and a caught error is thrown wrapped.
disconnectFinally(call, k) ==
    LET c2 == [call EXCEPT !.emitted = Append(@, Event("disconnect", TRUE, NullPort, 0))]
    IN [call |-> IF call.closeError # Null
                 THEN Done(c2, Raised("Failed to close serial port", call.closeError))
                 ELSE Done(c2, Value("undefined")),
        k |-> [k EXCEPT !.isOpen = FALSE, !.port = Null]]

\* disconnect with the cleanup after the try block instead of in a finally
\* block: an error of unregisterReadCallback leaves the state as it was
disconnectUnregisterSettledNoFinally(call, k, s) ==
    IF s.outcome = "ok"
    THEN [call |-> [call EXCEPT !.pc = "awaitClose",
                        !.transport = Append(@, TransportCall("closeConnection", 0, 0))],
          k |-> k]
    ELSE [call |-> Done([call EXCEPT !.closeError = s.error],
                        Raised("Failed to close serial port", s.error)),
          k |-> k]

\* disconnect, from the settlement of Serial.unregisterReadCallback on
disconnectUnregisterSettled(call, k, s) ==
    IF s.outcome = "ok"
    THEN [call |-> [call EXCEPT !.pc = "awaitClose",
                        !.transport = Append(@, TransportCall("closeConnection", 0, 0))],
          k |-> k]
    ELSE disconnectFinally([call EXCEPT !.closeError = s.error], k)

\* disconnect, from the settlement of Serial.closeConnection on
disconnectCloseSettled(call, k, s) ==
    IF s.outcome = "ok"
    THEN disconnectFinally(call, k)
    ELSE disconnectFinally([call EXCEPT !.closeError = s.error], k)

\* disconnect without `if (!this.isOpen) return`
disconnectCalledUnguarded(call, open) ==
    [call EXCEPT !.pc = "awaitUnregister", !.openAtCall = open,
                 !.transport = << TransportCall("unregisterReadCallback", 0, 0) >>]

\* disconnect, from the call to the await of Serial.unregisterReadCallback:
\* it returns at once when this.isOpen is false
disconnectCalled(call, open) ==
    IF ~open
    THEN Done(call, Value("undefined"))
    ELSE [call EXCEPT !.pc = "awaitUnregister", !.openAtCall = TRUE,
                      !.transport = << TransportCall("unregisterReadCallback", 0, 0) >>]

\* disconnect() is called
Disconnect ==
    /\ LET call == disconnectCalled(NewCall("disconnect"), isOpen)
       IN IF call.pc = "done"
          THEN ret' = call /\ calls' = calls
          ELSE HasFreeCall /\ StepCall(FreeCall, call)
    /\ UNCHANGED << isOpen, connectionId, port, bytesSent, bytesReceived,
                    receiveListener, readCallback, connectionOpen, registryVars >>

DisconnectUnregisterSettles(c, s) ==
    /\ calls[c].pc = "awaitUnregister"
    /\ LET log == Settle(calls[c].transport, s.outcome, s.error)
           r == disconnectUnregisterSettled([calls[c] EXCEPT !.transport = log], Controller, s)
       IN /\ SetController(r.k)
          /\ StepCall(c, r.call)
    /\ SettleTransport("unregisterReadCallback", s.outcome)
    /\ UNCHANGED << bytesSent, bytesReceived, registryVars >>

DisconnectCloseSettles(c, s) ==
    /\ calls[c].pc = "awaitClose"
    /\ LET log == Settle(calls[c].transport, s.outcome, s.error)
           r == disconnectCloseSettled([calls[c] EXCEPT !.transport = log], Controller, s)
       IN /\ SetController(r.k)
          /\ StepCall(c, r.call)
    /\ SettleTransport("closeConnection", s.outcome)
    /\ UNCHANGED << bytesSent, bytesReceived, registryVars >>

\* ----------------------------------------------------------- specifications
\* The registry operations write ports and loads only, the connection
\* operations write neither: each family is checked in a specification of its
\* own, whose behaviours are behaviours of Spec.
NextRegistry ==
    \/ \E d \in HotPlugDevices : HandleNewDevice(d[1], d[2])
    \/ \E d \in HotPlugDevices : HandleDeviceRemoval(d[1], d[2])
    \/ GetDevices
    \/ \E l \in Loads, o \in {"granted", "denied", "throw"} : PermissionSettles(l, o)
    \/ \E l \in Loads : GetDevicesReturns(l)

\* a transport promise of a call in flight settles
ConnectionSettles ==
    \/ \E c \in Calls, s \in Settlements : ConnectOpenSettles(c, s)
    \/ \E c \in Calls, s \in Settlements : ConnectRegisterSettles(c, s)
    \/ \E c \in Calls, s \in Settlements : SendWriteSettles(c, s)
    \/ \E c \in Calls, s \in Settlements : DisconnectUnregisterSettles(c, s)
    \/ \E c \in Calls, s \in Settlements : DisconnectCloseSettles(c, s)

NextConnection ==
    \/ \E p \in Paths : Connect(p)
    \/ \E n \in SendLengths, cb \in Callbacks : Send(n, cb)
    \/ Disconnect
    \/ \E n \in ChunkLengths : TransportDelivers(n)
    \/ TransportReadFails
    \/ ConnectionSettles

\* no connect, send or disconnect call is in flight
Quiet == \A c \in Calls : calls[c].pc = "idle"

\* a consumer that starts an operation only when the last one has completed
NextSequential ==
    \/ Quiet /\ \E p \in Paths : Connect(p)
    \/ Quiet /\ \E n \in SendLengths, cb \in Callbacks : Send(n, cb)
    \/ Quiet /\ Disconnect
    \/ Quiet /\ \E n \in ChunkLengths : TransportDelivers(n)
    \/ Quiet /\ TransportReadFails
    \/ ConnectionSettles

Next == NextRegistry \/ NextConnection

Spec == Init /\ [][Next]_vars
SpecRegistry == Init /\ [][NextRegistry]_vars
SpecConnection == Init /\ [][NextConnection]_vars
SpecSequential == Init /\ [][NextSequential]_vars

\* ------------------------------------------------------------------ claims
\* a descriptor for (vid, pid) is in the registry
Present(ps, vid, pid) ==
    \E i \in 1..Len(ps) : ps[i] # NullPort /\ Matches(ps[i], vid, pid)

\* the calls in flight and the call just completed
AllCalls == {loads[l] : l \in Loads} \cup {calls[c] : c \in Calls} \cup {ret}

\* the Serial calls of a call that rejected
Rejected(call) == {i \in 1..Len(call.transport) : call.transport[i].outcome = "throw"}

\* C1: whenever no connect or disconnect call is in flight, connectionId is
\* set if and only if isOpen is true.
C1_ConnectionIdIffOpen == Quiet => ((connectionId # Null) <=> isOpen)

\* C2: a disconnect call made while isOpen is true completes with isOpen
\* false and with exactly one notification emitted, "disconnect" carrying
\* true, whether unregisterReadCallback and closeConnection resolve or reject.
C2_DisconnectAlwaysCloses ==
    (ret.op = "disconnect" /\ ret.openAtCall)
        => /\ ~isOpen
           /\ ret.emitted = << Event("disconnect", TRUE, NullPort, 0) >>

C2_Witness ==
    /\ ret.op = "disconnect" /\ ret.openAtCall
    /\ ret.transport[1].outcome = "throw"

\* C3: a disconnect call made while open, one of whose transport steps
\* rejected, fails with the error "Failed to close serial port" whose cause is
\* the error of that step, isOpen being false and "disconnect" emitted when it
\* fails; when no step rejected it returns normally.
C3_DisconnectRaisesAfterCleanup ==
    (ret.op = "disconnect" /\ ret.openAtCall)
        => IF Rejected(ret) # {}
           THEN /\ ret.result = Raised("Failed to close serial port",
                                       ret.transport[Min(Rejected(ret))].error)
                /\ ~isOpen
                /\ \E i \in 1..Len(ret.emitted) : ret.emitted[i].type = "disconnect"
           ELSE ret.result = Value("undefined")

C3_Witness ==
    /\ ret.op = "disconnect" /\ ret.openAtCall
    /\ Len(ret.transport) = 2 /\ ret.transport[2].outcome = "throw"
    /\ ret.result.kind = "raised"

\* C4: a connect call made from Closed, with no other operation interleaved,
\* whose openConnection resolved, completes with isOpen true, connectionId the
\* path, the read callback registered, exactly one notification emitted,
\* "connect" carrying true, and the result true.
C4_ConnectSucceeds ==
    (ret.op = "connect" /\ ~ret.openAtCall /\ ret.transport[1].outcome = "ok")
        => /\ isOpen /\ connectionId = ret.path
           /\ Len(ret.transport) = 2
           /\ ret.emitted = << Event("connect", TRUE, NullPort, 0) >>
           /\ ret.result = Value("true")

\* C5: the step that completes a connect call made from Closed whose
\* openConnection rejected changes neither isOpen nor connectionId (a
\* controller that is Closed stays Closed), adds no listener and registers no
\* read callback; the call emitted exactly one notification, "connect"
\* carrying false, and returns false.
C5_FailedConnectLeavesClosed ==
    [][(ret'.op = "connect" /\ ~ret'.openAtCall /\ ret'.transport[1].outcome = "throw")
        => /\ isOpen' = isOpen /\ connectionId' = connectionId
           /\ receiveListener' = receiveListener /\ readCallback' = readCallback
           /\ Len(ret'.transport) = 1
           /\ ret'.emitted = << Event("connect", FALSE, NullPort, 0) >>
           /\ ret'.result = Value("false")]_vars

C5_Witness ==
    /\ ret.op = "connect" /\ ~ret.openAtCall
    /\ ret.transport[1].outcome = "throw"
    /\ ~isOpen /\ ret.result = Value("false")

\* C6: whatever the transport calls do, connect, send (given a callback that
\* does not throw) and getDevices complete with a value and never raise.
C6_OnlyDisconnectRaises ==
    (ret.op \in {"connect", "send", "getDevices"} /\ ret.cb # "throws")
        => ret.result.kind # "raised"

\* C7: the registry never holds two descriptors with the same
\* (vendorId, productId).
C7_NoDuplicateDescriptors ==
    \A i, j \in 1..Len(ports) :
        (i < j /\ ports[i] # NullPort /\ ports[j] # NullPort)
            => ~Matches(ports[j], ports[i].vendorId, ports[i].productId)

C7_Witness ==
    /\ ret.op = "handleNewDevice" /\ ret.result = Value("null")
    /\ Present(ports, ret.vendorId, ret.productId)

\* C8: handleNewDevice called with a pair already in the registry returns
\* null, leaves the registry unchanged and emits no notification.
C8_DuplicateAddIsNoOp ==
    [][(ret'.op = "handleNewDevice" /\ Present(ports, ret'.vendorId, ret'.productId))
        => /\ ret'.result = Value("null")
           /\ ports' = ports
           /\ ret'.emitted = <<>>]_vars

\* C9: handleDeviceRemoval called with a pair not in the registry leaves the
\* registry unchanged and emits no notification.
C9_RemovalOfAbsentIsNoOp ==
    [][(ret'.op = "handleDeviceRemoval" /\ ~Present(ports, ret'.vendorId, ret'.productId))
        => /\ ports' = ports
           /\ ret'.emitted = <<>>]_vars

C9_Witness ==
    /\ ret.op = "handleDeviceRemoval"
    /\ ports # <<>> /\ ~Present(ports, ret.vendorId, ret.productId)
    /\ ret.emitted = <<>>

\* C10: a getDevices call made while the registry is not empty makes no
\* requestSerialPermissions call (so every getDevices call that makes one was
\* made with the registry empty) and returns the registry.
C10_CachedGetDevicesAsksNothing ==
    \A call \in AllCalls :
        (call.op = "getDevices" /\ call.portsAtCall > 0)
            => /\ call.transport = <<>>
               /\ call.pc = "done" => call.result = PortsValue(ports)

C10_Witness ==
    /\ ret.op = "getDevices" /\ ret.portsAtCall > 0
    /\ ret.pc = "done" /\ ret.result.ports # <<>>

\* the calls that ran a negotiation pass (requestPermissionDevice)
Passes ==
    {call \in AllCalls : call.op \in {"loadDevices", "getDevices"} /\ call.transport # <<>>}

\* the requests of a pass that were granted
Granted(call) ==
    {i \in 1..Len(call.transport) : call.transport[i].outcome = "granted"}

\* C11: a negotiation pass requests the candidates in whitelist order, issues
\* no request after a granted one, and adds at most one descriptor.
C11_FirstGrantWins ==
    \A call \in Passes :
        /\ Len(call.transport) <= Len(serialDevices)
        /\ \A i \in 1..Len(call.transport) :
              /\ call.transport[i].name = "requestSerialPermissions"
              /\ call.transport[i].vendorId = serialDevices[i].vendorId
              /\ call.transport[i].productId = serialDevices[i].productId
              /\ i < Len(call.transport) => call.transport[i].outcome # "granted"
        /\ Len(call.emitted) <= 1

\* C12: a send call given a callback invokes it exactly once: with the
\* byteLength of the data, returning true, when the write resolved, and with 0,
\* returning false, when the write rejected.
C12_SendReportsOnce ==
    (ret.op = "send" /\ ret.cb # "none")
        => IF ret.transport[1].outcome = "ok"
           THEN ret.cbArgs = << ret.len >> /\ ret.result = Value("true")
           ELSE ret.cbArgs = << 0 >> /\ ret.result = Value("false")

\* C13: a disconnect call made while isOpen is false makes no Serial call,
\* emits no notification, changes no connection state and returns normally.
C13_DisconnectWhenClosedIsNoOp ==
    [][(ret'.op = "disconnect" /\ ~ret'.openAtCall)
        => /\ ret'.transport = <<>>
           /\ ret'.emitted = <<>>
           /\ ret'.result = Value("undefined")
           /\ UNCHANGED connectionVars]_vars

C13_Witness ==
    /\ ret.op = "disconnect" /\ ~ret.openAtCall /\ ret.pc = "done"
    /\ connectionId # Null /\ ~isOpen

\* C14: a disconnect call made while open calls unregisterReadCallback and
\* then closeConnection, whether or not unregisterReadCallback rejects.
C14_UnregisterThenClose ==
    (ret.op = "disconnect" /\ ret.openAtCall)
        => /\ Len(ret.transport) = 2
           /\ ret.transport[1].name = "unregisterReadCallback"
           /\ ret.transport[2].name = "closeConnection"

\* C15: connect does not look at this.isOpen again after its awaits: the step
\* that completes a connect whose registerReadCallback resolved emits "connect"
\* carrying true and returns true, leaving isOpen as a disconnect run meanwhile
\* left it.  C15_Witness is the state the claim says is reachable: such a
\* connect has just completed while isOpen is false and the transport's
\* connection is closed.
C15_ConnectIgnoresDisconnect ==
    [][(ret'.op = "connect" /\ Len(ret'.transport) = 2 /\ ret'.transport[2].outcome = "ok")
        => /\ ret'.result = Value("true")
           /\ ret'.emitted = << Event("connect", TRUE, NullPort, 0) >>
           /\ isOpen' = isOpen]_vars

C15_Witness ==
    /\ ret.op = "connect" /\ ~ret.openAtCall
    /\ ret.result = Value("true")
    /\ ret.emitted = << Event("connect", TRUE, NullPort, 0) >>
    /\ ~isOpen /\ ~connectionOpen

\* the passes that have returned: the constructor's loadDevices when complete,
\* a getDevices call at `await this.loadDevices()`
ReturnedPasses ==
    {call \in Passes : \/ call.op = "loadDevices" /\ call.pc = "done"
                       \/ call.op = "getDevices" /\ call.pc = "awaitLoad"}

\* C16: a negotiation pass returns true if and only if one of its requests
\* was granted, and false only after every candidate was requested with none
\* granted; a pass emits nothing for a candidate it skipped.
C16_PassResult ==
    \A call \in ReturnedPasses :
        /\ call.result = Value("true") <=> Granted(call) # {}
        /\ call.result = Value("false")
              => Len(call.transport) = Len(serialDevices) /\ Granted(call) = {}
        /\ Len(call.emitted) <= Cardinality(Granted(call))

\* the first entry of ps that is a descriptor of the pair
FirstMatch(ps, vid, pid) ==
    Min({i \in 1..Len(ps) : ps[i] # NullPort /\ Matches(ps[i], vid, pid)})

C18_ReceiveCountsEachChunkOnce ==
    [][/\ bytesReceived' >= bytesReceived
       /\ (ret'.op = "readCallback" /\ ret'.len > 0 /\ isOpen)
          => /\ bytesReceived' = bytesReceived + ret'.len
             /\ ret'.emitted = << Event("receive", TRUE, NullPort, ret'.len) >>]_vars

\* a second chunk is delivered after a second connect call has added the
\* listener again (the read callback in the transport is that of an earlier
\* connect, the second connect still awaits its registration)
C18_Witness ==
    /\ ret.op = "readCallback" /\ ret.len = 1
    /\ bytesReceived = 2
    /\ isOpen
    /\ \E c \in Calls : calls[c].op = "connect" /\ calls[c].pc = "awaitRegister"

\* C19: send never changes the controller's persistent state: bytesSent keeps
\* its initial value 0 after any sequence of send calls, successful or
\* failed, and neither the step that starts a send call nor the step that
\* completes one changes isOpen, connectionId or the registry.
C19_SendChangesNothing ==
    [][/\ bytesSent' = 0
       /\ (\/ ret'.op = "send"
           \/ \E c \in Calls : calls'[c].op = "send" /\ calls[c].op # "send")
          => UNCHANGED << isOpen, connectionId, port, ports, bytesSent,
                          bytesReceived >>]_vars

\* a send call on an open connection wrote its bytes and returned true
C19_Witness ==
    /\ ret.op = "send" /\ ret.result = Value("true")
    /\ ret.transport[1].outcome = "ok" /\ ret.len > 0
    /\ isOpen /\ connectionId # Null
    /\ bytesSent = 0

\* C20: however the constructor's pass and the passes of getDevices calls
\* interleave, the registry never holds two descriptors of one pair, and a
\* pass emits "addedDevice" only in the step that registers a pair that was
\* not registered before the step: no second notification for a pair while
\* it stays registered.
C20_ConcurrentPassesAddOnce ==
    [][/\ \A i, j \in 1..Len(ports') :
             (i # j /\ ports'[i] # NullPort /\ ports'[j] # NullPort)
                => ~Matches(ports'[i], ports'[j].vendorId, ports'[j].productId)
       /\ \A l \in Loads :
             LET after == IF loads'[l].pc = "idle" THEN ret' ELSE loads'[l]
                 e == after.emitted[Len(after.emitted)]
             IN (/\ loads[l].pc = "awaitPermission"
                 /\ loads'[l] # loads[l]
                 /\ Len(after.emitted) > Len(loads[l].emitted))
                => /\ Len(after.emitted) = Len(loads[l].emitted) + 1
                   /\ e.type = "addedDevice"
                   /\ e.port # NullPort
                   /\ ~Present(ports, e.port.vendorId, e.port.productId)
                   /\ Present(ports', e.port.vendorId, e.port.productId)]_vars

\* two passes were granted the same device: the pass of a getDevices call
\* registered it and emitted "addedDevice", the constructor's pass, granted
\* it afterwards, returned true with no notification
C20_Witness ==
    /\ ret.op = "loadDevices" /\ ret.result = Value("true") /\ ret.emitted = <<>>
    /\ ret.transport[Len(ret.transport)].outcome = "granted"
    /\ \E l \in Loads :
          /\ loads[l].op = "getDevices" /\ loads[l].pc = "awaitLoad"
          /\ loads[l].result = Value("true")
          /\ Len(loads[l].emitted) = 1
          /\ Matches(loads[l].emitted[1].port,
                     ret.transport[Len(ret.transport)].vendorId,
                     ret.transport[Len(ret.transport)].productId)

====
